---- MODULE Spec2Model ----
(***************************************************************************)
(* State-machine model of the BTC brute-force recovery program:            *)
(*   src/main.js            SeedPermutationRecovery (driver, enumerator,   *)
(*                          checkpoint store)                              *)
(*   src/unnamed/part_000   HashOnlyBTCDB (sorted-set index), lines 130+   *)
(*                                                                         *)
(* The program's literals are scaled so that the state space is finite and *)
(* small: 12-word combinations become K-word ones, the hard-coded n-k of   *)
(* 2036 becomes NMinusK, the 64-bit hash becomes HashBits wide, the yield  *)
(* cadence of 1000 becomes YieldEvery, and so on.  Each scaled literal is  *)
(* a definition below, with the source literal it stands for.              *)
(***************************************************************************)
EXTENDS Integers, Sequences, FiniteSets, TLC

VARIABLES
    \* ---- durable storage (survives process restarts) ----
    wordFile,             \* list_ph_shuffled.txt: its number of non-empty lines
    dbFile,               \* bitcoin_addresses_hash_only.db
    cpFile,               \* recovery_checkpoint.json
    resultFiles,          \* found_seed_*.txt: the seed phrases written
    \* ---- the process: SeedPermutationRecovery and its database ----
    pc,                   \* position of the process
    database,             \* HashOnlyBTCDB: hashes (null or array), hashCount
    wordlist,             \* this.wordlist
    checkedCombinations,  \* this.checkedCombinations
    sessionCombinations,  \* this.sessionCombinations
    foundSeeds,           \* this.foundSeeds
    currentIndices,       \* this.currentIndices
    indices,              \* startPermutationSearch's local indices
    attempts,             \* startPermutationSearch's local attempts
    sigintPending,        \* a SIGINT was delivered and its handler has not run
    \* ---- a single binarySearch call, statement by statement ----
    bs,                   \* [pc, target, left, right, result, iter]
    \* ---- history (not program state) ----
    tested,               \* every index vector tested, over all runs, in order
    runStart,             \* Len(tested) when the current process started
    runs,                 \* number of processes started so far
    loadOutcome,          \* which branch loadCheckpoint took in this process
    lastStop,             \* how the previous process stopped
    ioFailures,           \* number of injected I/O failures so far
    crashed,              \* whether a process was ever killed inside a write
    origin,               \* the checkpoint file found by the very first process
    lastSave,             \* the last saveCheckpoint call of the current process
    sinceYield,           \* combinations tested since the loop last yielded
    queried               \* the addresses handed to hasAddress for the last combination

vars == << wordFile, dbFile, cpFile, resultFiles, pc, database, wordlist,
           checkedCombinations, sessionCombinations, foundSeeds, currentIndices,
           indices, attempts, bs, tested, runStart, runs, loadOutcome, lastStop,
           ioFailures, crashed, origin, sigintPending, lastSave, sinceYield,
                    queried >>

diskVars == << wordFile, dbFile, cpFile, resultFiles >>
driverVars == << pc, wordlist, checkedCombinations, sessionCombinations,
                 foundSeeds, currentIndices, indices, attempts, sigintPending >>
historyVars == << tested, runStart, runs, loadOutcome, lastStop, ioFailures,
                 crashed, origin, lastSave, sinceYield,
                    queried >>

(***************************************************************************)
(* Program literals (scaled) and model bounds                              *)
(***************************************************************************)
K == 3              \* words per combination: 12 in main.js (i = 11, i < 12)
NMinusK == 2        \* main.js:99 hard-codes n-k = 2036 (n = 2048, k = 12)
YieldEvery == 3     \* main.js:363 yields every 1000 attempts
AddrCount == 2      \* main.js:122 derives count = 20 addresses
Prealloc == 2       \* main.js:163 new Array(12)
HeaderSize == 24    \* part_000:145 header bytes
HashSize == 8       \* part_000:163 bytes per hash
OrderingSample == 2 \* part_000:205 verifyOrdering looks at the first 1000
HashBits == 8       \* part_000:220 the hash is 64 bits wide
RotBits == 3        \* part_000:220 rotate left by 13
HashSeed == 135     \* part_000:215 0x9e3779b185ebca87 (low byte 0x87)
HashPrime == 79     \* part_000:221 0xc2b2ae3d27d4eb4f (low byte 0x4f)

MaxN == 6           \* largest wordlist length tried
MaxRuns == 2        \* processes started in one behaviour
MaxTested == 12     \* cap on checkedCombinations
MaxIoFailures == 1  \* injected I/O failures in one behaviour
MaxHash == 4        \* index elements and targets of SpecDB are in 0..MaxHash
MaxIndexLen == 3    \* longest index array of SpecDB

HardN == NMinusK + K   \* the universe size nextCombination assumes (2048)

(***************************************************************************)
(* JavaScript values                                                       *)
(***************************************************************************)
\* this.currentIndices / checkpoint.indices: null, an array, or (in a
\* hand-edited checkpoint) a number.
JsNull == [t |-> "null", v |-> << >>]
JsNum == [t |-> "num", v |-> << >>]
JsArr(s) == [t |-> "arr", v |-> s]

\* Elements of a foundAddresses array: a hole left by new Array(12), a JSON
\* null, or the object {index, address, path} (path is "m/44'/0'/0'/0/" + index).
Hole == [t |-> "hole", index |-> -1, address |-> << >>]
JNull == [t |-> "null", index |-> -1, address |-> << >>]
Entry(i, a) == [t |-> "obj", index |-> i, address |-> a]

EmptyWord == -1     \* Array.prototype.join renders undefined as ""

Range(s) == { s[i] : i \in DOMAIN s }

RECURSIVE SumSeq(_)
SumSeq(s) == IF s = << >> THEN 0 ELSE Head(s) + SumSeq(Tail(s))

(***************************************************************************)
(* Combinatorial enumerator (main.js)                                      *)
(***************************************************************************)
\* main.js:294-298 the first combination [0,1,...,11]
firstCombination == [j \in 1..K |-> j - 1]

\* main.js:98-99  let i = 11; while (i >= 0 && indices[i] === 2036 + i) i--;
RECURSIVE ScanRight(_, _)
ScanRight(ix, i) ==
    IF i >= 0 /\ ix[i + 1] = NMinusK + i THEN ScanRight(ix, i - 1) ELSE i

\* main.js:97-118  returns false, or true after advancing indices in place.
\* Modelled as [ok, indices]: the array after the call.
nextCombination(ix) ==
    LET i == ScanRight(ix, K - 1) IN
    IF i < 0 THEN [ok |-> FALSE, indices |-> ix]
    ELSE LET val == ix[i + 1] + 1 IN
         [ok |-> TRUE,
          indices |-> [j \in DOMAIN ix |->
                         IF j - 1 = i THEN val
                         ELSE IF j - 1 > i /\ j - 1 <= K - 1 THEN val + (j - 1 - i)
                         ELSE ix[j]]]

\* main.js:87-93  wl[indices[0]] ... wl[indices[11]] joined by ' '.
\* Word number w of the list is modelled by w itself; wl[x] for x outside
\* the list is undefined, which join renders as the empty word.
generateCombination(wl, ix) ==
    [j \in 1..K |-> IF ix[j] >= 0 /\ ix[j] < Len(wl) THEN wl[ix[j] + 1]
                    ELSE EmptyWord]

(***************************************************************************)
(* External derivation (bip39 / bip32 / bitcoinjs), as used by main.js     *)
(***************************************************************************)
\* bip39.validateMnemonic, mnemonicToSeedSync, derivation: an external,
\* deterministic collaborator.  A phrase with an empty word is never valid;
\* otherwise the checksum is a fixed function of the words: phrases with an
\* odd word sum pass it.  Among the others, one residue class stands for
\* phrases on which the derivation throws.
deriveOutcome(seedPhrase) ==
    IF EmptyWord \in Range(seedPhrase) THEN "invalid"
    ELSE CASE (SumSeq(seedPhrase) % 2) = 1 -> "ok"
           [] (SumSeq(seedPhrase) % 4) = 0 -> "threw"
           [] OTHER -> "invalid"

\* The address string derived at m/44'/0'/0'/0/i: a sequence of char codes.
addressOf(seedPhrase, i) == seedPhrase \o << i >>

\* generateAddresses as it would be without the validateMnemonic test of
\* main.js:124-126 (mnemonicToSeedSync derives a seed from any string).
generateAddressesUngated(seedPhrase) ==
    IF deriveOutcome(seedPhrase) # "threw"
    THEN [i \in 1..AddrCount |-> addressOf(seedPhrase, i - 1)]
    ELSE << >>

\* main.js:122-158  [] when invalid or when anything throws, else the
\* first `count` addresses.
generateAddresses(seedPhrase) ==
    IF deriveOutcome(seedPhrase) = "ok"
    THEN [i \in 1..AddrCount |-> addressOf(seedPhrase, i - 1)]
    ELSE << >>

(***************************************************************************)
(* Sorted-set index (part_000, class HashOnlyBTCDB)                        *)
(***************************************************************************)
HashMod == 2 ^ HashBits

RECURSIVE Xor(_, _)
Xor(a, b) ==
    IF a = 0 THEN b
    ELSE IF b = 0 THEN a
    ELSE (((a % 2) + (b % 2)) % 2) + 2 * Xor(a \div 2, b \div 2)

\* part_000:220  ((h << 13n) | (h >> 51n)) & mask
RotL(h) == ((h * (2 ^ RotBits)) + (h \div (2 ^ (HashBits - RotBits)))) % HashMod

\* part_000:214-225
RECURSIVE xxhashFrom(_, _)
xxhashFrom(h, str) ==
    IF str = << >> THEN h
    ELSE xxhashFrom((RotL(Xor(h, Head(str))) * HashPrime) % HashMod, Tail(str))

xxhash64(str) == xxhashFrom(HashSeed, str)

\* part_000:133-136  constructor
newDatabase == [loaded |-> FALSE, hashes |-> << >>, hashCount |-> 0]

\* A database file: whether it exists, its length in bytes, and the header
\* fields and complete 8-byte words a reader finds in it.
DbFile(magic, count, hashSize, words, tail) ==
    [exists |-> TRUE, length |-> HeaderSize + HashSize * Len(words) + tail,
     magic |-> magic, count |-> count, hashSize |-> hashSize, words |-> words]
ShortDbFile == [exists |-> TRUE, length |-> HeaderSize - 1, magic |-> "BTCHASH1",
                count |-> 0, hashSize |-> HashSize, words |-> << >>]
NoDbFile == [exists |-> FALSE, length |-> 0, magic |-> "", count |-> 0,
             hashSize |-> 0, words |-> << >>]

\* verifyOrdering as it would be without the limit of part_000:205.
verifyOrderingWhole(hashes) ==
    \A i \in 2..Len(hashes) : hashes[i] > hashes[i - 1]

\* part_000:204-211
verifyOrdering(hashes) ==
    \A i \in 2..Len(hashes) :
        (i - 1 < OrderingSample) => hashes[i] > hashes[i - 1]

\* loadDatabase without the magic check of part_000:150-155.
loadDatabaseAnyMagic(db, f) ==
    LET fail(d) == [ok |-> FALSE, db |-> d, warned |-> FALSE] IN
    IF ~f.exists THEN fail(db)
    ELSE IF f.length < HeaderSize THEN fail(db)
    ELSE LET db1 == [db EXCEPT !.hashCount = f.count] IN
         IF f.hashSize # HashSize THEN fail(db1)
         ELSE IF f.length - HeaderSize < f.count * 8 THEN fail(db1)
         ELSE LET hs == SubSeq(f.words, 1, f.count)
                  db2 == [db1 EXCEPT !.loaded = TRUE, !.hashes = hs]
              IN  IF Len(hs) = 0 THEN fail(db2)
                  ELSE [ok |-> TRUE, db |-> db2, warned |-> FALSE]

\* part_000:139-201  [ok, db, warned]: the return value, the object after
\* the call, and whether the ordering warning was printed.
loadDatabase(db, f) ==
    LET fail(d) == [ok |-> FALSE, db |-> d, warned |-> FALSE] IN
    IF ~f.exists THEN fail(db)                      \* readFileSync throws
    ELSE IF f.length < HeaderSize THEN fail(db)
    ELSE IF f.magic # "BTCHASH1" THEN fail(db)
    ELSE LET db1 == [db EXCEPT !.hashCount = f.count] IN
         IF f.hashSize # HashSize THEN fail(db1)
         ELSE IF f.length - HeaderSize < f.count * 8 THEN fail(db1)
         ELSE LET hs == SubSeq(f.words, 1, f.count)
                  db2 == [db1 EXCEPT !.loaded = TRUE, !.hashes = hs]
              IN  IF Len(hs) = 0
                  THEN fail(db2)   \* this.hashes[0].toString throws TypeError
                  ELSE [ok |-> TRUE, db |-> db2, warned |-> ~verifyOrdering(hs)]

\* part_000:228-246  one evaluation of the loop condition and body.
bsStart(hashes, target) ==
    [pc |-> "loop", target |-> target, left |-> 0, right |-> Len(hashes) - 1,
     result |-> FALSE, iter |-> 0]

\* bsNext with the loop condition left < right instead of left <= right.
bsNextStrictLoop(hashes, s) ==
    IF s.left < s.right
    THEN LET mid == (s.left + s.right) \div 2
             midHash == hashes[mid + 1]
         IN  IF midHash = s.target
             THEN [s EXCEPT !.pc = "done", !.result = TRUE, !.iter = @ + 1]
             ELSE IF midHash < s.target
             THEN [s EXCEPT !.left = mid + 1, !.iter = @ + 1]
             ELSE [s EXCEPT !.right = mid - 1, !.iter = @ + 1]
    ELSE [s EXCEPT !.pc = "done", !.result = FALSE]

bsNext(hashes, s) ==
    IF s.left <= s.right
    THEN LET mid == (s.left + s.right) \div 2
             midHash == hashes[mid + 1]
         IN  IF midHash = s.target
             THEN [s EXCEPT !.pc = "done", !.result = TRUE, !.iter = @ + 1]
             ELSE IF midHash < s.target
             THEN [s EXCEPT !.left = mid + 1, !.iter = @ + 1]
             ELSE [s EXCEPT !.right = mid - 1, !.iter = @ + 1]
    ELSE [s EXCEPT !.pc = "done", !.result = FALSE]

RECURSIVE bsRun(_, _)
bsRun(hashes, s) == IF s.pc = "done" THEN s.result ELSE bsRun(hashes, bsNext(hashes, s))

binarySearch(hashes, targetHash) == bsRun(hashes, bsStart(hashes, targetHash))

\* part_000:249-256
hasAddress(db, address) ==
    IF ~db.loaded \/ Len(db.hashes) = 0 THEN FALSE
    ELSE binarySearch(db.hashes, xxhash64(address))

(***************************************************************************)
(* Hit detection and result artifact (main.js)                             *)
(***************************************************************************)
RECURSIVE matchesFrom(_, _, _)
matchesFrom(db, addresses, i) ==
    IF i > Len(addresses) THEN << >>
    ELSE (IF hasAddress(db, addresses[i])
          THEN << Entry(i - 1, addresses[i]) >> ELSE << >>)
         \o matchesFrom(db, addresses, i + 1)

\* main.js:161-179  foundAddresses starts as new Array(12) and the matches
\* are pushed after its 12 holes.
checkSeedPhrase(db, seedPhrase) ==
    LET m == matchesFrom(db, generateAddresses(seedPhrase), 1) IN
    [foundAddresses |-> [j \in 1..Prealloc |-> Hole] \o m, found |-> m # << >>]

\* main.js:162-168  the loop of checkSeedPhrase hands every address that
\* generateAddresses returned to this.database.hasAddress, in order.
lookups(seedPhrase) == generateAddresses(seedPhrase)

\* main.js:353-357  the record pushed on this.foundSeeds; the timestamped
\* file name is modelled by the counter value at the time of the find.
foundRecord(seedPhrase, foundAddresses, filename) ==
    [seedPhrase |-> seedPhrase, foundAddresses |-> foundAddresses,
     filename |-> filename]

(***************************************************************************)
(* Checkpoint store (main.js)                                              *)
(***************************************************************************)
\* The content of recovery_checkpoint.json: missing, unparsable text
\* ("garbage": hand-made, "partial": a write that did not complete), or the
\* JSON value of a checkpoint object.
NoCheckpoint == [kind |-> "missing", indices |-> JsNull,
                 checkedCombinations |-> 0, foundSeeds |-> << >>]
GarbageCheckpoint == [NoCheckpoint EXCEPT !.kind = "garbage"]
PartialCheckpoint == [NoCheckpoint EXCEPT !.kind = "partial"]
JsonCheckpoint(ix, cc, fs) == [kind |-> "json", indices |-> ix,
                               checkedCombinations |-> cc, foundSeeds |-> fs]

\* JSON.stringify of an array writes null for each hole.
stringifyAddresses(fa) == [j \in DOMAIN fa |-> IF fa[j].t = "hole" THEN JNull ELSE fa[j]]
stringifyFound(fs) ==
    [r \in DOMAIN fs |->
        foundRecord(fs[r].seedPhrase, stringifyAddresses(fs[r].foundAddresses),
                    fs[r].filename)]

\* main.js:398-407  JSON.stringify(checkpoint, null, 2)
stringifyCheckpoint(ci, cc, fs) == JsonCheckpoint(ci, cc, stringifyFound(fs))

\* main.js:397-412  the file after saveCheckpoint, by the outcome of
\* fs.writeFileSync: written; not opened (file untouched); opened, hence
\* truncated, and not completely written.  The error is caught and logged.
saveCheckpoint(file, ci, cc, fs, outcome) ==
    CASE outcome = "ok" -> stringifyCheckpoint(ci, cc, fs)
      [] outcome = "eacces" -> file
      [] OTHER -> PartialCheckpoint

\* main.js:415-443  the three fields after loadCheckpoint, and the branch
\* taken: "none" (no file), "novalid" (no valid indices), "resumed",
\* "error" (the catch block).
loadCheckpoint(file, ci, cc, fs) ==
    LET keep(o) == [currentIndices |-> ci, checkedCombinations |-> cc,
                    foundSeeds |-> fs, outcome |-> o]
    IN  CASE file.kind = "missing" -> keep("none")
          [] file.kind \in {"garbage", "partial"} -> keep("error")   \* JSON.parse throws
          [] file.indices.t = "null" -> keep("novalid")
          [] OTHER ->
               [currentIndices |-> file.indices,
                checkedCombinations |-> file.checkedCombinations,
                foundSeeds |-> file.foundSeeds,
                \* this.currentIndices.join throws on a non-array
                outcome |-> IF file.indices.t = "arr" THEN "resumed" ELSE "error"]

(***************************************************************************)
(* Inputs                                                                  *)
(***************************************************************************)
RECURSIVE SortedSeqOf(_)
SortedSeqOf(S) ==
    IF S = {} THEN << >>
    ELSE LET m == CHOOSE x \in S : \A y \in S : x <= y
         IN  << m >> \o SortedSeqOf(S \ {m})

\* The funded addresses the database of the driver runs was built from.
FundedAddresses == { <<0, 1, 2, 0>>, <<0, 1, 2, 1>>, <<0, 1, 4, 0>>, <<2, 3, 4, 1>> }
FundedHashes == SortedSeqOf({ xxhash64(a) : a \in FundedAddresses })
FundedDbFile == DbFile("BTCHASH1", Len(FundedHashes), HashSize, FundedHashes, 0)

DriverDbFiles ==
    { FundedDbFile,
      NoDbFile,
      ShortDbFile,
      DbFile("BTCHASH2", Len(FundedHashes), HashSize, FundedHashes, 0),
      DbFile("BTCHASH1", Len(FundedHashes), HashSize \div 2, FundedHashes, 0),
      DbFile("BTCHASH1", Len(FundedHashes) + 1, HashSize, FundedHashes, HashSize - 1),
      DbFile("BTCHASH1", 0, HashSize, << >>, 0) }

\* The checkpoint file the first process finds: none, the one shipped with
\* the repository, or a hand-edited / corrupted one.
InitialCheckpoints ==
    { NoCheckpoint,
      GarbageCheckpoint,
      JsonCheckpoint(JsNum, 7, << >>),
      JsonCheckpoint(JsArr(<<0, 2, 3>>), 4, << >>),
      JsonCheckpoint(JsArr(<<2, 1, 0>>), 3, << >>),
      JsonCheckpoint(JsArr(<<0, 1, HardN + 2>>), 3, << >>),
      JsonCheckpoint(JsArr(<<0, 1, 2, 3>>), 1, << >>) }

\* Wordlist lengths: too short, the shortest accepted, the one
\* nextCombination assumes, and a longer one.
WordFiles == {K - 1, K, HardN, MaxN}

bsIdle == [pc |-> "idle", target |-> 0, left |-> 0, right |-> 0,
           result |-> FALSE, iter |-> 0]

(***************************************************************************)
(* The driver                                                              *)
(***************************************************************************)
\* A call of saveCheckpoint: who called it (the checkpoint timer, the SIGINT
\* handler, the finally block), the outcome of the write, and the text
\* JSON.stringify produced (main.js:398-407).
NoSave == [who |-> "none", outcome |-> "none", record |-> NoCheckpoint]
SaveCall(who, ci, cc, fs, outcome) ==
    [who |-> who, outcome |-> outcome, record |-> stringifyCheckpoint(ci, cc, fs)]

\* The yield test as it would be with a cadence that is off by one.
yieldDueLate(a) == a % (YieldEvery + 1) = 0

\* main.js:363  if (attempts % 1000 === 0)
yieldDue(a) == a % YieldEvery = 0

\* main.js:14-26  constructor
Constructed ==
    /\ database' = newDatabase
    /\ wordlist' = << >>
    /\ checkedCombinations' = 0
    /\ sessionCombinations' = 0
    /\ foundSeeds' = << >>
    /\ currentIndices' = JsNull
    /\ indices' = << >>
    /\ attempts' = 0
    /\ sigintPending' = FALSE

Init ==
    /\ wordFile \in WordFiles
    /\ dbFile \in DriverDbFiles
    /\ cpFile \in InitialCheckpoints
    /\ resultFiles = {}
    /\ pc = "boot"
    /\ database = newDatabase
    /\ wordlist = << >>
    /\ checkedCombinations = 0
    /\ sessionCombinations = 0
    /\ foundSeeds = << >>
    /\ currentIndices = JsNull
    /\ indices = << >>
    /\ attempts = 0
    /\ bs = bsIdle
    /\ tested = << >>
    /\ runStart = 0
    /\ runs = 1
    /\ loadOutcome = "notyet"
    /\ lastStop = "none"
    /\ ioFailures = 0
    /\ crashed = FALSE
    /\ origin = cpFile
    /\ sigintPending = FALSE
    /\ lastSave = NoSave
    /\ sinceYield = 0
    /\ queried = << >>

\* The outcomes fs.writeFileSync may have, given the failures injected so far.
SaveOutcomes(used) ==
    {"ok"} \cup (IF used < MaxIoFailures THEN {"eacces", "enospc"} ELSE {})
Failures(o) == IF o = "ok" THEN 0 ELSE 1

\* main.js:29-52  initialize(): loadDatabase, loadWordlist,
\* calculateTotalCombinations (main.js:72-84), loadCheckpoint.
Initialize ==
    /\ pc = "boot"
    /\ LET r == loadDatabase(database, dbFile) IN
       /\ database' = r.db
       /\ IF ~r.ok
          THEN /\ pc' = "aborted"            \* throw new Error('Cannot load database!')
               /\ UNCHANGED << wordlist, checkedCombinations, foundSeeds,
                               currentIndices, loadOutcome >>
          ELSE /\ wordlist' = [j \in 1..wordFile |-> j - 1]
               /\ IF wordFile < K
                  THEN /\ pc' = "rejected"   \* process.exit(1)
                       /\ UNCHANGED << checkedCombinations, foundSeeds,
                                       currentIndices, loadOutcome >>
                  ELSE LET c == loadCheckpoint(cpFile, currentIndices,
                                               checkedCombinations, foundSeeds)
                       IN  /\ currentIndices' = c.currentIndices
                           /\ checkedCombinations' = c.checkedCombinations
                           /\ foundSeeds' = c.foundSeeds
                           /\ loadOutcome' = c.outcome
                           /\ pc' = "initialized"
    /\ UNCHANGED << diskVars, sessionCombinations, indices, attempts, bs,
                    tested, runStart, runs, lastStop, ioFailures, crashed, origin,
                    sigintPending, lastSave, sinceYield,
                    queried >>

\* main.js:285-323  startPermutationSearch up to the loop.  Spreading a
\* non-array throws before the try block: main() logs the error.
StartSearch ==
    /\ pc = "initialized"
    /\ IF currentIndices.t = "null"
       THEN indices' = firstCombination /\ pc' = "test"
       ELSE IF currentIndices.t = "arr"
       THEN indices' = currentIndices.v /\ pc' = "test"
       ELSE indices' = indices /\ pc' = "failed"
    /\ attempts' = 0
    /\ UNCHANGED << diskVars, database, wordlist, checkedCombinations,
                    sessionCombinations, foundSeeds, currentIndices, bs,
                    sigintPending, historyVars >>

\* The loop body as it would be without main.js:332: the snapshot
\* this.currentIndices is not refreshed for the combination being tested.
TestCombinationStaleSnapshot ==
    /\ pc = "test"
    /\ checkedCombinations < MaxTested
    /\ attempts' = attempts + 1
    /\ checkedCombinations' = checkedCombinations + 1
    /\ sessionCombinations' = sessionCombinations + 1
    /\ currentIndices' = currentIndices
    /\ tested' = Append(tested, indices)
    /\ sinceYield' = sinceYield + 1
    /\ queried' = lookups(generateCombination(wordlist, indices))
    /\ LET seedPhrase == generateCombination(wordlist, indices)
           res == checkSeedPhrase(database, seedPhrase)
           yieldNow == yieldDue(attempts + 1)
           goOn == pc' = (IF yieldNow THEN "yield" ELSE "advance")
       IN  IF ~res.found
           THEN /\ goOn
                /\ UNCHANGED << foundSeeds, resultFiles, cpFile, ioFailures,
                                lastSave >>
           ELSE \E w \in SaveOutcomes(ioFailures) :
                   IF w = "ok"
                   THEN /\ resultFiles' = resultFiles \cup {seedPhrase}
                        /\ foundSeeds' = Append(foundSeeds,
                               foundRecord(seedPhrase, res.foundAddresses,
                                           checkedCombinations + 1))
                        /\ goOn
                        /\ UNCHANGED << cpFile, ioFailures, lastSave >>
                   ELSE \E o \in SaveOutcomes(ioFailures + 1) :
                        /\ cpFile' = saveCheckpoint(cpFile, JsArr(indices),
                                         checkedCombinations + 1, foundSeeds, o)
                        /\ lastSave' = SaveCall("finally", JsArr(indices),
                                         checkedCombinations + 1, foundSeeds, o)
                        /\ ioFailures' = ioFailures + 1 + Failures(o)
                        /\ pc' = "failed"
                        /\ UNCHANGED << foundSeeds, resultFiles >>
    /\ UNCHANGED << wordFile, dbFile, database, wordlist, indices, bs,
                    runStart, runs, loadOutcome, lastStop, crashed, origin,
                    sigintPending >>

\* main.js:326-365  one pass of the loop body.  When saveSeedPhrase throws
\* (main.js:199), the finally block (main.js:370-378) runs and the error
\* leaves startPermutationSearch.
TestCombination ==
    /\ pc = "test"
    /\ checkedCombinations < MaxTested
    /\ attempts' = attempts + 1
    /\ checkedCombinations' = checkedCombinations + 1
    /\ sessionCombinations' = sessionCombinations + 1
    /\ currentIndices' = JsArr(indices)
    /\ tested' = Append(tested, indices)
    /\ sinceYield' = sinceYield + 1
    /\ queried' = lookups(generateCombination(wordlist, indices))
    /\ LET seedPhrase == generateCombination(wordlist, indices)
           res == checkSeedPhrase(database, seedPhrase)
           yieldNow == yieldDue(attempts + 1)
           goOn == pc' = (IF yieldNow THEN "yield" ELSE "advance")
       IN  IF ~res.found
           THEN /\ goOn
                /\ UNCHANGED << foundSeeds, resultFiles, cpFile, ioFailures,
                                lastSave >>
           ELSE \E w \in SaveOutcomes(ioFailures) :
                   IF w = "ok"
                   THEN /\ resultFiles' = resultFiles \cup {seedPhrase}
                        /\ foundSeeds' = Append(foundSeeds,
                               foundRecord(seedPhrase, res.foundAddresses,
                                           checkedCombinations + 1))
                        /\ goOn
                        /\ UNCHANGED << cpFile, ioFailures, lastSave >>
                   ELSE \E o \in SaveOutcomes(ioFailures + 1) :
                        /\ cpFile' = saveCheckpoint(cpFile, JsArr(indices),
                                         checkedCombinations + 1, foundSeeds, o)
                        /\ lastSave' = SaveCall("finally", JsArr(indices),
                                         checkedCombinations + 1, foundSeeds, o)
                        /\ ioFailures' = ioFailures + 1 + Failures(o)
                        /\ pc' = "failed"
                        /\ UNCHANGED << foundSeeds, resultFiles >>
    /\ UNCHANGED << wordFile, dbFile, database, wordlist, indices, bs,
                    runStart, runs, loadOutcome, lastStop, crashed, origin,
                    sigintPending >>

\* main.js:363-365  the awaited setImmediate resolves and the loop goes on.
\* The event loop polls for signals before it runs setImmediate callbacks,
\* so a SIGINT delivered before the yield is handled first.
ResumeLoop ==
    /\ pc = "yield"
    /\ ~sigintPending
    /\ pc' = "advance"
    /\ sinceYield' = 0
    /\ queried' = queried
    /\ UNCHANGED << diskVars, database, wordlist, checkedCombinations,
                    sessionCombinations, foundSeeds, currentIndices, indices,
                    attempts, bs, sigintPending, tested, runStart, runs,
                    loadOutcome, lastStop, ioFailures, crashed, origin, lastSave >>

\* The timer callback as it would be if saveCheckpoint had no try/catch
\* around fs.writeFileSync: the exception leaves the callback and ends the
\* process.
CheckpointTimerUncaught ==
    /\ pc = "yield"
    /\ currentIndices' = JsArr(indices)
    /\ \E o \in SaveOutcomes(ioFailures) :
          /\ cpFile' = saveCheckpoint(cpFile, JsArr(indices), checkedCombinations,
                                      foundSeeds, o)
          /\ lastSave' = SaveCall("timer", JsArr(indices), checkedCombinations,
                                  foundSeeds, o)
          /\ ioFailures' = ioFailures + Failures(o)
          /\ pc' = IF o = "ok" THEN pc ELSE "failed"
    /\ UNCHANGED << wordFile, dbFile, resultFiles, database, wordlist,
                    checkedCombinations, sessionCombinations, foundSeeds, indices,
                    attempts, bs, tested, runStart, runs, loadOutcome, lastStop,
                    crashed, origin, sigintPending, sinceYield,
                    queried >>

\* main.js:316-321  the 60 s checkpoint timer, served at a yield point.
CheckpointTimer ==
    /\ pc = "yield"
    /\ currentIndices' = JsArr(indices)
    /\ \E o \in SaveOutcomes(ioFailures) :
          /\ cpFile' = saveCheckpoint(cpFile, JsArr(indices), checkedCombinations,
                                      foundSeeds, o)
          /\ lastSave' = SaveCall("timer", JsArr(indices), checkedCombinations,
                                  foundSeeds, o)
          /\ ioFailures' = ioFailures + Failures(o)
    /\ UNCHANGED << wordFile, dbFile, resultFiles, pc, database, wordlist,
                    checkedCombinations, sessionCombinations, foundSeeds, indices,
                    attempts, bs, tested, runStart, runs, loadOutcome, lastStop,
                    crashed, origin, sigintPending, sinceYield,
                    queried >>

\* The user presses Ctrl+C while the search is running: the signal is
\* delivered to the process, whose handler (main.js:471) runs when the event
\* loop next gets control.
SigintArrives ==
    /\ pc \in {"test", "advance", "yield"}
    /\ ~sigintPending
    /\ sigintPending' = TRUE
    /\ UNCHANGED << diskVars, pc, database, wordlist, checkedCombinations,
                    sessionCombinations, foundSeeds, currentIndices, indices,
                    attempts, bs, historyVars >>

\* The handler as it would be without its saveCheckpoint call.
SigintExitOnly ==
    /\ sigintPending
    /\ pc \in {"yield", "exhausted", "failed"}
    /\ pc' = IF pc = "yield" THEN "interrupted" ELSE pc
    /\ sigintPending' = FALSE
    /\ UNCHANGED << diskVars, database, wordlist, checkedCombinations,
                    sessionCombinations, foundSeeds, currentIndices, indices,
                    attempts, bs, historyVars >>

\* main.js:471-481  the SIGINT handler: saveCheckpoint, process.exit(0).
\* It is served at a yield point, or, when the loop ended before the next
\* yield point, once main() has returned.
Sigint ==
    /\ sigintPending
    /\ pc \in {"yield", "exhausted", "failed"}
    /\ \E o \in SaveOutcomes(ioFailures) :
          /\ cpFile' = saveCheckpoint(cpFile, currentIndices, checkedCombinations,
                                      foundSeeds, o)
          /\ lastSave' = SaveCall("sigint", currentIndices, checkedCombinations,
                                  foundSeeds, o)
          /\ ioFailures' = ioFailures + Failures(o)
    /\ pc' = IF pc = "yield" THEN "interrupted" ELSE pc
    /\ sigintPending' = FALSE
    /\ UNCHANGED << wordFile, dbFile, resultFiles, database, wordlist,
                    checkedCombinations, sessionCombinations, foundSeeds,
                    currentIndices, indices, attempts, bs, tested, runStart, runs,
                    loadOutcome, lastStop, crashed, origin, sinceYield,
                    queried >>

\* main.js:368-378  the loop condition; on false the finally block saves
\* the final checkpoint and the statistics are printed.
Advance ==
    /\ pc = "advance"
    /\ LET r == nextCombination(indices) IN
       IF r.ok
       THEN /\ indices' = r.indices
            /\ pc' = "test"
            /\ UNCHANGED << cpFile, currentIndices, ioFailures, lastSave >>
       ELSE /\ indices' = r.indices
            /\ currentIndices' = JsArr(r.indices)
            /\ \E o \in SaveOutcomes(ioFailures) :
                  /\ cpFile' = saveCheckpoint(cpFile, JsArr(r.indices),
                                   checkedCombinations, foundSeeds, o)
                  /\ lastSave' = SaveCall("finally", JsArr(r.indices),
                                   checkedCombinations, foundSeeds, o)
                  /\ ioFailures' = ioFailures + Failures(o)
            /\ pc' = "exhausted"
    /\ UNCHANGED << wordFile, dbFile, resultFiles, database, wordlist,
                    checkedCombinations, sessionCombinations, foundSeeds,
                    attempts, bs, tested, runStart, runs, loadOutcome, lastStop,
                    crashed, origin, sigintPending, sinceYield,
                    queried >>

\* The process is killed (SIGKILL, power loss) while a handler served at a
\* yield point is inside fs.writeFileSync (main.js:407): the file has been
\* opened for writing, hence truncated, and is not completely written.
KillDuringSave ==
    /\ pc = "yield"
    /\ cpFile' = PartialCheckpoint
    /\ pc' = "killed_in_save"
    /\ crashed' = TRUE
    /\ UNCHANGED << wordFile, dbFile, resultFiles, database, wordlist,
                    checkedCombinations, sessionCombinations, foundSeeds,
                    currentIndices, indices, attempts, bs, tested, runStart,
                    runs, loadOutcome, lastStop, ioFailures, origin,
                    sigintPending, lastSave, sinceYield,
                    queried >>

Stopped == {"aborted", "rejected", "failed", "interrupted", "exhausted",
            "killed_in_save"}

\* node main.js is run again (main.js:467-498): a new process, a new object.
Restart ==
    /\ pc \in Stopped
    /\ pc = "killed_in_save" \/ ~sigintPending   \* the old process has exited
    /\ runs < MaxRuns
    /\ Constructed
    /\ pc' = "boot"
    /\ runs' = runs + 1
    /\ runStart' = Len(tested)
    /\ loadOutcome' = "notyet"
    /\ lastStop' = pc
    /\ lastSave' = NoSave
    /\ sinceYield' = 0
    /\ queried' = << >>
    /\ UNCHANGED << diskVars, bs, tested, ioFailures, crashed, origin >>

Next ==
    \/ Initialize
    \/ StartSearch
    \/ TestCombination
    \/ ResumeLoop
    \/ CheckpointTimer
    \/ SigintArrives
    \/ Sigint
    \/ Advance
    \/ KillDuringSave
    \/ Restart

Spec == Init /\ [][Next]_vars

(***************************************************************************)
(* The index on its own: a client of HashOnlyBTCDB (as testDatabase,       *)
(* part_000:270-319) loads a file and then calls binarySearch, whose loop  *)
(* is followed one evaluation at a time.                                   *)
(***************************************************************************)
RECURSIVE SeqsUpTo(_, _)
SeqsUpTo(S, n) ==
    IF n = 0 THEN { << >> }
    ELSE LET shorter == SeqsUpTo(S, n - 1)
         IN  shorter \cup { Append(q, x) : q \in { r \in shorter : Len(r) = n - 1 }, x \in S }

IndexArrays == SeqsUpTo(0..MaxHash, MaxIndexLen)

\* Every array as a well-formed file, with every declared count from 0 to
\* one more than the file holds; and files with a bad header.
IndexFiles ==
    { DbFile("BTCHASH1", c, HashSize, w, t) :
         w \in IndexArrays, c \in 0..(MaxIndexLen + 1), t \in {0, HashSize - 1} }
    \cup { DbFile("BTCHASH2", Len(w), HashSize, w, 0) : w \in { x \in IndexArrays : Len(x) <= 1 } }
    \cup { DbFile("BTCHASH1", Len(w), HashSize \div 2, w, 0) : w \in { x \in IndexArrays : Len(x) <= 1 } }
    \cup { ShortDbFile, NoDbFile }

InitDB ==
    /\ wordFile = K
    /\ dbFile \in IndexFiles
    /\ cpFile = NoCheckpoint
    /\ resultFiles = {}
    /\ pc = "boot"
    /\ database = newDatabase
    /\ wordlist = << >>
    /\ checkedCombinations = 0
    /\ sessionCombinations = 0
    /\ foundSeeds = << >>
    /\ currentIndices = JsNull
    /\ indices = << >>
    /\ attempts = 0
    /\ bs = bsIdle
    /\ tested = << >>
    /\ runStart = 0
    /\ runs = 1
    /\ loadOutcome = "notyet"
    /\ lastStop = "none"
    /\ ioFailures = 0
    /\ crashed = FALSE
    /\ origin = cpFile
    /\ sigintPending = FALSE
    /\ lastSave = NoSave
    /\ sinceYield = 0
    /\ queried = << >>

\* part_000:276  db.loadDatabase(file)
DbLoad ==
    /\ pc = "boot"
    /\ LET r == loadDatabase(database, dbFile) IN
       /\ database' = r.db
       /\ pc' = IF r.ok THEN (IF r.warned THEN "loaded_warned" ELSE "loaded")
                ELSE "loadfailed"
    /\ UNCHANGED << diskVars, wordlist, checkedCombinations, sessionCombinations,
                    foundSeeds, currentIndices, indices, attempts, sigintPending,
                    bs, historyVars >>

\* part_000:228-230  binarySearch(targetHash) is entered (this.hashes is
\* an array, possibly empty after a failed load of a count-0 file).
BsCall ==
    /\ pc # "boot"
    /\ database.loaded
    /\ bs.pc \in {"idle", "done"}
    /\ \E f \in 0..MaxHash : bs' = bsStart(database.hashes, f)
    /\ UNCHANGED << diskVars, driverVars, database, historyVars >>

\* part_000:232-245  one evaluation of the loop condition and body.
BsStep ==
    /\ bs.pc = "loop"
    /\ bs' = bsNext(database.hashes, bs)
    /\ UNCHANGED << diskVars, driverVars, database, historyVars >>

NextDB == DbLoad \/ BsCall \/ BsStep

SpecDB == InitDB /\ [][NextDB]_vars

(***************************************************************************)
(* The enumerator on its own: the state machine over the index array that  *)
(* startPermutationSearch drives.  One enumeration runs from the first     *)
(* combination to exhaustion; at any state on the way the loop's snapshot  *)
(* (this.currentIndices = [...indices]) may be kept; afterwards a second   *)
(* enumeration is started from a copy of the kept snapshot, as a resumed   *)
(* search does.  tested records the states of both, in order.              *)
(***************************************************************************)
enumFrame == << diskVars, database, wordlist, checkedCombinations,
                sessionCombinations, foundSeeds, attempts, bs, sigintPending,
                runs, loadOutcome, lastStop, ioFailures, crashed, origin,
                lastSave, sinceYield,
                    queried >>

InitEnum ==
    /\ wordFile \in WordFiles \ {K - 1}
    /\ dbFile = NoDbFile
    /\ cpFile = NoCheckpoint
    /\ resultFiles = {}
    /\ pc = "boot"
    /\ database = newDatabase
    /\ wordlist = [j \in 1..wordFile |-> j - 1]
    /\ checkedCombinations = 0
    /\ sessionCombinations = 0
    /\ foundSeeds = << >>
    /\ currentIndices = JsNull
    /\ indices = << >>
    /\ attempts = 0
    /\ bs = bsIdle
    /\ tested = << >>
    /\ runStart = 0
    /\ runs = 1
    /\ loadOutcome = "notyet"
    /\ lastStop = "none"
    /\ ioFailures = 0
    /\ crashed = FALSE
    /\ origin = cpFile
    /\ sigintPending = FALSE
    /\ lastSave = NoSave
    /\ sinceYield = 0
    /\ queried = << >>

\* main.js:289-293  no snapshot: indices = [0, 1, ..., 11]
EnumFirst ==
    /\ pc = "boot"
    /\ indices' = firstCombination
    /\ tested' = << firstCombination >>
    /\ pc' = "enum"
    /\ UNCHANGED << currentIndices, runStart, enumFrame >>

\* main.js:332  this.currentIndices = [...indices], kept from here on.
EnumCapture ==
    /\ pc = "enum"
    /\ currentIndices = JsNull
    /\ currentIndices' = JsArr(indices)
    /\ UNCHANGED << pc, indices, tested, runStart, enumFrame >>

\* main.js:368  while (this.nextCombination(indices))
EnumNext ==
    /\ pc \in {"enum", "resumed"}
    /\ LET r == nextCombination(indices) IN
       /\ indices' = r.indices
       /\ IF r.ok
          THEN tested' = Append(tested, r.indices) /\ pc' = pc
          ELSE tested' = tested
               /\ pc' = (IF pc = "enum" THEN "enum_exhausted" ELSE "resumed_exhausted")
    /\ UNCHANGED << currentIndices, runStart, enumFrame >>

\* The second enumeration as it would start if the snapshot were ignored.
EnumResumeFromFirst ==
    /\ pc = "enum_exhausted"
    /\ currentIndices # JsNull
    /\ indices' = firstCombination
    /\ runStart' = Len(tested)
    /\ tested' = Append(tested, firstCombination)
    /\ pc' = "resumed"
    /\ UNCHANGED << currentIndices, enumFrame >>

\* main.js:289-291  indices = [...this.currentIndices]
EnumResume ==
    /\ pc = "enum_exhausted"
    /\ currentIndices # JsNull
    /\ indices' = currentIndices.v
    /\ runStart' = Len(tested)
    /\ tested' = Append(tested, currentIndices.v)
    /\ pc' = "resumed"
    /\ UNCHANGED << currentIndices, enumFrame >>

NextEnum == EnumFirst \/ EnumCapture \/ EnumNext \/ EnumResume

SpecEnum == InitEnum /\ [][NextEnum]_vars

(***************************************************************************)
(* Definitions used to state the properties                                *)
(***************************************************************************)
RECURSIVE LexLess(_, _)
LexLess(a, b) ==
    IF a = << >> \/ b = << >> THEN FALSE
    ELSE Head(a) < Head(b) \/ (Head(a) = Head(b) /\ LexLess(Tail(a), Tail(b)))

StrictlyIncreasing(s) == \A i \in 1..(Len(s) - 1) : s[i] < s[i + 1]

\* The CombinationState invariant for a universe of n symbols.
ValidState(ix, n) ==
    /\ Len(ix) = K
    /\ StrictlyIncreasing(ix)
    /\ \A j \in 1..Len(ix) : ix[j] >= 0 /\ ix[j] <= n - K + (j - 1)

RECURSIVE LexSorted(_)
LexSorted(S) ==
    IF S = {} THEN << >>
    ELSE LET m == CHOOSE x \in S : \A y \in S : x = y \/ LexLess(x, y)
         IN  << m >> \o LexSorted(S \ {m})

\* All k-subsets of {0..n-1} as index vectors, in lexicographic order.
LexCombinations(n, k) ==
    LexSorted({ c \in [1..k -> 0..(n - 1)] : StrictlyIncreasing(c) })

\* The phrases of the current process's tested combinations that have a hit.
SessionHits ==
    { generateCombination(wordlist, tested[i]) : i \in (runStart + 1)..Len(tested) }
      \cap { ph \in [1..K -> 0..MaxN] : checkSeedPhrase(database, ph).found }

Phrases(fs) == { fs[r].seedPhrase : r \in DOMAIN fs }

\* One uninterrupted sweep from the first combination, as the code
\* enumerates it: the number of combinations tested and the phrases found.
RECURSIVE sweepFrom(_, _, _, _, _)
sweepFrom(db, wl, ix, count, found) ==
    LET ph == generateCombination(wl, ix)
        f == IF checkSeedPhrase(db, ph).found THEN found \cup {ph} ELSE found
        r == nextCombination(ix)
    IN  IF r.ok THEN sweepFrom(db, wl, r.indices, count + 1, f)
        ELSE [totalTested |-> count + 1, found |-> f]

UninterruptedSweep == sweepFrom(database, wordlist, firstCombination, 0, {})

\* No fault was injected and the first process found no checkpoint file.
CleanHistory == origin.kind = "missing" /\ ~crashed /\ ioFailures = 0

\* The wordlist has the length nextCombination assumes.
AssumedUniverse == wordFile = HardN

(***************************************************************************)
(* Properties                                                              *)
(***************************************************************************)
\* C1: a fresh, uninterrupted run to exhaustion has tested exactly the
\* k-subsets of {0..n-1}, n the loaded wordlist's length, each once, in
\* lexicographic order.
C1_EnumerationCompleteness ==
    (pc = "exhausted" /\ runs = 1 /\ CleanHistory)
        => tested = LexCombinations(Len(wordlist), K)

\* C2: over runs separated by checkpointed interruption and resume, the
\* combinations tested are strictly increasing in lexicographic order (so
\* none is tested twice, the checkpointed one included).
C2_StrictOrderAcrossRuns ==
    (CleanHistory /\ AssumedUniverse)
        => \A i \in 1..(Len(tested) - 1) : LexLess(tested[i], tested[i + 1])

\* C3: a sweep that was interrupted and resumed ends exhausted with the
\* totalTested and the found phrases of one uninterrupted sweep.
C3_IdempotentRestart ==
    (pc = "exhausted" /\ CleanHistory /\ AssumedUniverse)
        => /\ checkedCombinations = UninterruptedSweep.totalTested
           /\ Phrases(foundSeeds) = UninterruptedSweep.found

\* C4: the checkpoint file a process finds at startup after the previous
\* process stopped inside saveCheckpoint is a complete record, never a
\* partially written one.
C4_AtomicCheckpointWrite ==
    (pc = "boot" /\ lastStop = "killed_in_save") => cpFile.kind # "partial"

\* C5: every combination tested by the process that has a hit has a record
\* in foundSeeds, and a final checkpoint written after it holds the record,
\* whatever the result-file write did.
C5_FindNeverLost ==
    (AssumedUniverse /\ origin.kind = "missing" /\ ~crashed)
        => /\ SessionHits \subseteq Phrases(foundSeeds)
           /\ (pc \in {"failed", "exhausted", "interrupted"} /\ cpFile.kind = "json"
                 /\ cpFile.checkedCombinations = checkedCombinations)
                => SessionHits \subseteq Phrases(cpFile.foundSeeds)

\* C6: saving the driver's state and loading it into a fresh instance gives
\* back equal indices, an equal counter and an equal found list.
C6_CheckpointRoundTrip ==
    (pc \in {"test", "yield", "advance"} /\ currentIndices.t = "arr"
       /\ CleanHistory /\ AssumedUniverse)
        => LET saved == saveCheckpoint(cpFile, currentIndices,
                                       checkedCombinations, foundSeeds, "ok")
               back == loadCheckpoint(saved, JsNull, 0, << >>)
           IN  /\ back.currentIndices = currentIndices
               /\ back.checkedCombinations = checkedCombinations
               /\ back.foundSeeds = foundSeeds

\* C7: a checkpoint whose state violates the CombinationState invariant is
\* rejected: the search starts from the first combination.
C7_ResumeValidation ==
    (pc = "test" /\ attempts = 0 /\ AssumedUniverse /\ cpFile.kind = "json"
       /\ cpFile.indices.t = "arr" /\ ~ValidState(cpFile.indices.v, Len(wordlist)))
        => indices = firstCombination

\* C8: after loadCheckpoint found no file, found no valid record or
\* reported an error, the driver is in the fresh-start state.
C8_RejectedCheckpointLeavesFreshState ==
    (pc = "initialized" /\ loadOutcome \in {"none", "novalid", "error"})
        => /\ currentIndices = JsNull
           /\ checkedCombinations = 0
           /\ foundSeeds = << >>

\* The files the claim names: shorter than the header, wrong magic, wrong
\* width, or fewer data bytes than count * 8.
RejectedDbFile(f) ==
    /\ f.exists
    /\ \/ f.length < 24
       \/ f.magic # "BTCHASH1"
       \/ f.hashSize # 8
       \/ f.length - 24 < f.count * 8

ProbeAddresses ==
    FundedAddresses \cup { addressOf(c, i) : c \in [1..K -> 0..MaxN], i \in 0..(AddrCount - 1) }

\* C9: with such a database file, initialize() fails: the process aborts,
\* no combination is ever tested, and hasAddress is false for every address.
C9_IndexLoadRejection ==
    (RejectedDbFile(dbFile) /\ pc # "boot")
        => /\ pc = "aborted"
           /\ tested = << >>
           /\ \A a \in ProbeAddresses : ~hasAddress(database, a)

C9_Witness ==
    /\ pc = "aborted"
    /\ RejectedDbFile(dbFile)
    /\ dbFile.length >= 24
    /\ dbFile.magic = "BTCHASH1"
    /\ dbFile.hashSize = 8

\* C10: on a strictly ascending array binarySearch returns true iff some
\* element equals the target, and its loop terminates: every evaluation of
\* the loop shrinks the interval [left, right], so there are at most
\* Len(hashes) of them.
C10_MembershipCorrectness ==
    /\ ((bs.pc = "done" /\ StrictlyIncreasing(database.hashes))
         => (bs.result <=> \E i \in DOMAIN database.hashes : database.hashes[i] = bs.target))
    /\ (bs.pc = "loop")
         => (/\ bs.left <= bs.right + 1
             /\ bs.iter + (bs.right - bs.left + 1) <= Len(database.hashes))

C10_Witness ==
    /\ bs.pc = "done"
    /\ Len(database.hashes) = MaxIndexLen
    /\ StrictlyIncreasing(database.hashes)
    /\ bs.result
    /\ bs.target = database.hashes[Len(database.hashes)]
    /\ bs.iter > 1

\* The combination the current process tested last.
LastTested == tested[Len(tested)]

\* C11: when the search has stopped by SIGINT or by exhaustion, the process
\* has called saveCheckpoint on its way out (from the SIGINT handler, or
\* from the finally block), the checkpoint it handed to the write holds the
\* combination tested last with the counter and the found list as they are
\* after that combination, and a write that succeeded left exactly that
\* checkpoint in the file.
C11_FinalCheckpointOnExit ==
    (pc \in {"interrupted", "exhausted"})
        => /\ Len(tested) > runStart
           /\ pc = "interrupted" => lastSave.who = "sigint"
           /\ pc = "exhausted" => lastSave.who \in {"finally", "sigint"}
           /\ lastSave.record =
                 JsonCheckpoint(JsArr(LastTested), checkedCombinations,
                                stringifyFound(foundSeeds))
           /\ lastSave.outcome = "ok" => cpFile = lastSave.record

C11_Witness ==
    /\ pc = "interrupted"
    /\ lastSave.outcome = "ok"
    /\ foundSeeds # << >>
    /\ LastTested # firstCombination
    /\ cpFile.indices = JsArr(LastTested)

\* C12: a saveCheckpoint call whose write fails returns normally.  A step
\* in which a checkpoint write fails (a step of the timer, of the SIGINT
\* handler or of the finally block at exhaustion) leaves the recovery
\* object and the loop's locals as they were; after a failed save by the
\* timer the loop is still at its yield point, from which it goes on; the
\* next timer callback calls saveCheckpoint again.
C12_SaveFailureNonFatal ==
    [][ /\ (ioFailures' > ioFailures /\ pc # "test")
            => UNCHANGED << indices, currentIndices, checkedCombinations,
                            sessionCombinations, foundSeeds, attempts, wordlist,
                            database, resultFiles >>
        /\ (ioFailures' > ioFailures /\ lastSave'.who = "timer")
            => (pc = "yield" /\ pc' = "yield" /\ lastSave'.outcome # "ok")
      ]_vars

\* A timer save failed earlier in this process (the only failure after
\* which a process is still running), the search went on to further
\* combinations, and a later timer save was made.
C12_Witness ==
    /\ runs = 1
    /\ ioFailures = 1
    /\ pc = "test"
    /\ lastSave.who = "timer"
    /\ lastSave.outcome = "ok"
    /\ cpFile = lastSave.record

\* C13: no failure while one combination is processed (derivation,
\* hashing, lookup, recording and persisting a hit) leaves the iteration:
\* once the loop body has run for a combination, the loop goes on to its
\* yield point or to nextCombination.
C13_PerCombinationIsolation ==
    [][ (pc = "test" /\ pc' # "test") => pc' \in {"yield", "advance"} ]_vars

\* C14: a combination whose derivation or hashing threw is counted as an
\* error, apart from the tested and hit counts: the loop body run for such
\* a combination changes some part of the program's state other than what
\* it changes for every tested combination (checkedCombinations,
\* sessionCombinations, attempts and the snapshot currentIndices), and the
\* value checkSeedPhrase returns for it differs from the one it returns for
\* a combination that was derived and matched nothing.
C14_ErrorsCounted ==
    [][ (pc = "test" /\ tested' # tested /\ CleanHistory /\ AssumedUniverse
           /\ deriveOutcome(generateCombination(wordlist, indices)) = "threw")
        => /\ ~ UNCHANGED << foundSeeds, resultFiles, cpFile, wordlist, database,
                             indices >>
           /\ \A i \in 1..Len(tested) :
                LET q == generateCombination(wordlist, tested[i]) IN
                (deriveOutcome(q) = "ok" /\ ~checkSeedPhrase(database, q).found)
                   => checkSeedPhrase(database, q)
                        # checkSeedPhrase(database,
                                          generateCombination(wordlist, indices))
      ]_vars

\* C15: the enumeration started from a copy of a state s that the first
\* enumeration went through produces, after s, exactly the states the first
\* enumeration produced after s, and is exhausted after the same state.
\* (The first enumeration is strictly ascending, so s occurs in it once.)
C15_ResumeFidelity ==
    /\ \A i \in 1..(Len(tested) - 1) :
          i # runStart => LexLess(tested[i], tested[i + 1])
    /\ (pc \in {"resumed", "resumed_exhausted"}) =>
          LET s == currentIndices.v
              p == CHOOSE i \in 1..runStart : tested[i] = s
              m == Len(tested) - runStart
          IN  /\ \E i \in 1..runStart : tested[i] = s
              /\ p + m - 1 <= runStart
              /\ \A j \in 1..m : tested[runStart + j] = tested[p + j - 1]
              /\ pc = "resumed_exhausted" => p + m - 1 = runStart

C15_Witness ==
    /\ pc = "resumed_exhausted"
    /\ currentIndices.v # firstCombination
    /\ Len(tested) - runStart > 2
    /\ Len(tested) > runStart + 1
    /\ tested[runStart + 1] = currentIndices.v

\* C16: with a wordlist of exactly k words there is one combination, and
\* the first call of nextCombination returns false; with fewer than k words
\* the configuration is rejected and no combination is ever enumerated or
\* tested.
C16_EdgeCases ==
    /\ (wordFile < K) => (tested = << >> /\ pc \in {"boot", "aborted", "rejected"})
    /\ (Len(wordlist) = K /\ CleanHistory /\ runs = 1)
          => /\ Len(tested) <= 1
             /\ pc = "advance" => ~nextCombination(indices).ok

\* C17: while the search is running, whatever the accepted wordlist length
\* n >= k, the index array has k entries, is strictly increasing and has
\* 0 <= indices[i] <= n - k + i, so that every index used by
\* generateCombination is below n.
C17_CombinationStateInvariant ==
    (pc \in {"test", "yield", "advance"} /\ CleanHistory)
        => /\ ValidState(indices, Len(wordlist))
           /\ \A j \in DOMAIN indices : indices[j] < Len(wordlist)

\* The number of index arrays whose entries are within the maxima
\* nextCombination compares against.  nextCombination goes strictly upwards
\* in lexicographic order, and an entry above its maximum is never brought
\* back below it, so an enumeration that is ever exhausted is exhausted
\* within that many calls.
SearchSpace ==
    Cardinality({ c \in [1..K -> 0..(HardN - 1)] :
                    \A j \in 1..K : c[j] <= NMinusK + (j - 1) })

RECURSIVE exhaustsWithin(_, _)
exhaustsWithin(ix, calls) ==
    LET r == nextCombination(ix) IN
    IF ~r.ok THEN TRUE
    ELSE IF calls = 0 THEN FALSE
    ELSE exhaustsWithin(r.indices, calls - 1)

\* C18: from every state the search starts from (the first combination, or
\* the indices restored from a checkpoint), repeated nextCombination returns
\* false after finitely many calls: at most as many as there are index
\* arrays.
C18_Termination ==
    (pc = "test" /\ attempts = 0) => exhaustsWithin(indices, SearchSpace)

\* The found records made up to the time the counter had value cc (the
\* file name of a record is the counter value at its find).
foundUpTo(fs, cc) == SelectSeq(fs, LAMBDA r : r.filename <= cc)

\* The counter value the current process started from.
CounterAtStart == checkedCombinations - sessionCombinations

\* C19: the timer callbacks and the SIGINT handler run when the loop is at
\* its yield point (or has ended), and what they see there is consistent:
\* currentIndices equals the loop's index array, which is the combination
\* tested last, and the counters already count it.  Every checkpoint a
\* handler has saved pairs the combination number m of this process with
\* the counter as it was after that combination and with the found list as
\* it was then; a checkpoint of the timer, or of an interrupting SIGINT
\* handler, was taken at a multiple of the yield cadence.
C19_SnapshotConsistency ==
    /\ (pc = "yield")
          => /\ Len(tested) > runStart
             /\ currentIndices = JsArr(indices)
             /\ indices = LastTested
             /\ sessionCombinations = Len(tested) - runStart
             /\ attempts = sessionCombinations
    /\ (lastSave.who \in {"timer", "sigint"})
          => LET m == lastSave.record.checkedCombinations - CounterAtStart IN
             /\ m \in 1..(Len(tested) - runStart)
             /\ lastSave.record.indices = JsArr(tested[runStart + m])
             /\ lastSave.record.foundSeeds
                   = stringifyFound(foundUpTo(foundSeeds,
                                              lastSave.record.checkedCombinations))
             /\ (lastSave.who = "timer" \/ pc = "interrupted") => yieldDue(m)

C19_Witness ==
    /\ pc = "advance"
    /\ lastSave.who = "timer"
    /\ lastSave.outcome = "ok"
    /\ lastSave.record.foundSeeds # << >>
    /\ Len(foundSeeds) > Len(lastSave.record.foundSeeds)
    /\ CounterAtStart > 0

\* C20: the loop never tests more than the yield cadence (1000 in the
\* program) of combinations in a row without yielding; at a yield point a
\* pending SIGINT is served before the loop goes on, and the checkpoint
\* timer can be served; neither handler runs while the loop is between the
\* start of a combination and the end of its bookkeeping.
C20_CooperativeYielding ==
    /\ [](/\ sinceYield <= YieldEvery
          /\ pc = "test" => sinceYield < YieldEvery
          /\ pc = "yield" => (sinceYield = YieldEvery /\ ENABLED CheckpointTimer)
          /\ (pc = "yield" /\ sigintPending) => ENABLED Sigint)
    /\ [][ /\ (pc = "yield" /\ sigintPending) => pc' # "advance"
           /\ (pc \in {"test", "advance"})
                => /\ pc' # "interrupted"
                   /\ (lastSave' = lastSave \/ lastSave'.who = "finally")
                   /\ sigintPending => sigintPending'
       ]_vars

C20_Witness ==
    /\ pc = "yield"
    /\ sigintPending
    /\ attempts = 2 * YieldEvery
    /\ sinceYield = YieldEvery

\* The (position, address) pairs of the derived addresses whose hash is an
\* element of the loaded index, by increasing position.
matchingKeys(db, seedPhrase) ==
    SelectSeq([i \in 1..AddrCount |-> Entry(i - 1, addressOf(seedPhrase, i - 1))],
              LAMBDA e : \E h \in DOMAIN db.hashes :
                            db.hashes[h] = xxhash64(e.address))

\* C21: every record of the found list holds, for its combination, exactly
\* one (position, address) entry per derived address whose hash is in the
\* index, by increasing position, and nothing else; the length of that
\* sequence (which the program prints as "Addresses with balance found",
\* main.js:343) is the number of matching addresses.
C21_FoundRecordContent ==
    \A r \in DOMAIN foundSeeds :
        /\ foundSeeds[r].foundAddresses
              = matchingKeys(database, foundSeeds[r].seedPhrase)
        /\ Len(foundSeeds[r].foundAddresses)
              = Cardinality({ i \in 0..(AddrCount - 1) :
                   hasAddress(database, addressOf(foundSeeds[r].seedPhrase, i)) })

\* C22: nextCombination does not modify the array it is given: the caller
\* (the loop of startPermutationSearch, whose local indices is the
\* argument of every call) finds its array unchanged after the call.
C22_NextIsPure ==
    [][ (pc = "advance") => indices' = indices ]_vars

Min(a, b) == IF a < b THEN a ELSE b

\* C23: a load that succeeds warns about the ordering iff, among the first
\* min(1000, count) elements, some element is not strictly greater than its
\* predecessor; with or without the warning the load has succeeded and the
\* index holds the elements and answers searches; a violation beyond the
\* first 1000 elements alone gives no warning.
C23_BoundedSortednessCheck ==
    (pc \in {"loaded", "loaded_warned"})
        => /\ (pc = "loaded_warned")
                <=> \E i \in 2..Min(OrderingSample, dbFile.count) :
                       dbFile.words[i] <= dbFile.words[i - 1]
           /\ database.loaded
           /\ database.hashes = SubSeq(dbFile.words, 1, dbFile.count)
           /\ bs.pc = "done"
                => \/ bs.result
                   \/ bs.target \notin Range(database.hashes)
                   \/ ~StrictlyIncreasing(database.hashes)

\* A load without warning of an index whose only ordering violation is
\* beyond the checked elements, and a search in it.
C23_Witness ==
    /\ pc = "loaded"
    /\ Len(database.hashes) > OrderingSample
    /\ ~StrictlyIncreasing(database.hashes)
    /\ bs.pc = "done"

\* C24: the index is asked only about addresses derived from a combination
\* that validateMnemonic accepted.  When the loop body runs for a
\* combination that is rejected as invalid, or whose derivation throws,
\* hasAddress is not called, no record is appended and no result file is
\* written, and the combination is counted once in both counters.
C24_ValidityGatesLookup ==
    [][ (pc = "test" /\ tested' # tested) =>
          LET ph == generateCombination(wordlist, indices) IN
          /\ \A q \in DOMAIN queried' :
                /\ deriveOutcome(ph) = "ok"
                /\ queried'[q] = addressOf(ph, q - 1)
          /\ (deriveOutcome(ph) # "ok")
                => /\ queried' = << >>
                   /\ UNCHANGED << foundSeeds, resultFiles >>
                   /\ checkedCombinations' = checkedCombinations + 1
                   /\ sessionCombinations' = sessionCombinations + 1
                   /\ tested' = Append(tested, indices)
      ]_vars

\* After a hit, an invalid combination has been tested.
C24_Witness ==
    /\ Len(tested) > runStart + 1
    /\ deriveOutcome(generateCombination(wordlist, LastTested)) = "invalid"
    /\ EmptyWord \notin Range(generateCombination(wordlist, LastTested))
    /\ queried = << >>
    /\ foundSeeds # << >>
    /\ sessionCombinations = Len(tested) - runStart

\* The lexicographic rank of an index array among the k-subsets of a
\* universe of n symbols: the number of them that precede it.
rank(ix, n) ==
    Cardinality({ c \in [1..K -> 0..(n - 1)] : StrictlyIncreasing(c) /\ LexLess(c, ix) })

\* The counter a process takes over from the checkpoint file it finds.
restoredCounter(file) ==
    IF file.kind = "json" /\ file.indices.t # "null"
    THEN file.checkedCombinations ELSE 0

\* C25: checkedCombinations is the counter restored from the checkpoint (0
\* on a fresh start) plus sessionCombinations; sessionCombinations is the
\* number of combinations the current process has tested; each tested
\* combination adds exactly 1 to both and nothing else changes them or
\* lowers them; and in an unbroken run from the first combination
\* checkedCombinations at a yield point is 1 + the lexicographic rank of
\* the current index array in the universe of the wordlist.
C25_CounterBookkeeping ==
    /\ [](/\ sessionCombinations = Len(tested) - runStart
          /\ (pc = "yield" /\ runs = 1 /\ origin.kind = "missing")
                => checkedCombinations = 1 + rank(indices, Len(wordlist)))
    /\ [][ /\ (pc = "boot" /\ pc' = "initialized")
                => /\ checkedCombinations' = restoredCounter(cpFile)
                   /\ sessionCombinations' = 0
           /\ (tested' # tested)
                => /\ checkedCombinations' = checkedCombinations + 1
                   /\ sessionCombinations' = sessionCombinations + 1
                   /\ Len(tested') = Len(tested) + 1
           /\ (tested' = tested /\ pc # "boot" /\ pc' # "boot")
                => UNCHANGED << checkedCombinations, sessionCombinations >>
       ]_vars

\* C26: over runs with interruption and resume the found list holds at
\* most one record per combination, and after a sweep that was interrupted
\* and resumed it has as many records as after an uninterrupted sweep.
C26_NoDuplicatedFinds ==
    (CleanHistory /\ AssumedUniverse)
        => /\ \A r1, r2 \in DOMAIN foundSeeds :
                 foundSeeds[r1].seedPhrase = foundSeeds[r2].seedPhrase => r1 = r2
           /\ pc = "exhausted"
                 => Len(foundSeeds) = Cardinality(UninterruptedSweep.found)

\* A file with the header, the magic tag, width 8 and at least count * 8
\* data bytes.
WellFormedDbFile(f) ==
    /\ f.exists
    /\ f.length >= HeaderSize
    /\ f.magic = "BTCHASH1"
    /\ f.hashSize = HashSize
    /\ f.length - HeaderSize >= f.count * HashSize

\* C27: loadDatabase succeeds exactly for the well-formed files, whatever
\* the count, 0 included; after a successful load the array holds exactly
\* the first count elements of the file, in file order.
C27_LoadAcceptsWellFormed ==
    (pc # "boot")
        => /\ (pc \in {"loaded", "loaded_warned"}) <=> WellFormedDbFile(dbFile)
           /\ (pc \in {"loaded", "loaded_warned"})
                 => /\ Len(database.hashes) = dbFile.count
                    /\ database.hashes = SubSeq(dbFile.words, 1, dbFile.count)

====
